---------------------------- MODULE Spec2Model ----------------------------
(***************************************************************************)
(* Model of the chart helpers of streamlit_app.py: display_html_file and   *)
(* display_html_map (asset resolution, animation-speed rewrite, dimension  *)
(* stripping, style injection, rendering, error reporting).                *)
(*                                                                         *)
(* Text is a sequence of tokens.  Every token stands for one fixed piece   *)
(* of text, and the regular expressions and string operations of the       *)
(* source are computed on the token sequence exactly as they act on the    *)
(* concatenated text.  The token texts are:                                *)
(*                                                                         *)
(*   NP     Plotly.newPlot(          END    );                             *)
(*   ID     "g"                      ,  [  ]  {  }   the character itself  *)
(*   WS     one space                NUL    null                           *)
(*   UMK    "updatemenus":           SLK    "sliders":                     *)
(*   BTK    "buttons":               STK    "steps":                       *)
(*   AGK    "args":                  KEY    "a":                           *)
(*   ARGS   {"frame":{"duration":a},"transition":{"duration":b}}           *)
(*          (c = 1: the same object in json.dumps spacing)                 *)
(*   SVG    <svg                     GT     >                              *)
(*   HATTR  height="450"             WATTR  width="700"                    *)
(*   ATTR   class="m"                QGT    title="a>b"                    *)
(*   HC     height:                  WC     width:                         *)
(*   NUM    the decimal digits of a  PX     px                             *)
(*   ;      ;                        MAX    max-                           *)
(*   HEAD   </head>                  TXT    x                              *)
(*   IMP    " !important;"           MAXW100  max-width: 100% !important;  *)
(*   IMPNL  " !important;" and the line break and indentation after it     *)
(*   CSS_OPEN   "<style> html, body {..} .main-svg, .plotly-graph-div {"   *)
(*              up to and without "max-" of the max-height line            *)
(*   CSS_CLOSE  "} svg {..} </style>" of display_html_file                 *)
(*   MAP_OPEN   "<!DOCTYPE html> <html> <head> <meta ..> <style> .." up to *)
(*              and without "max-" of the max-height line                  *)
(*   MAP_STYLE_END  "} svg {..} </style>" of display_html_map              *)
(*   MAP_BODY   <body>               MAP_CLOSE  </body> </html>            *)
(***************************************************************************)
EXTENDS Integers, Sequences, FiniteSets, TLC

VARIABLES fs, asset, halted, last

vars == <<fs, asset, halted, last>>

---------------------------------------------------------------------------
(* Tokens *)

T(kind) == [k |-> kind, a |-> 0, b |-> 0, c |-> 0]
Num(n) == [k |-> "NUM", a |-> n, b |-> 0, c |-> 0]
Args(fd, td, sp) == [k |-> "ARGS", a |-> fd, b |-> td, c |-> sp]

Toks(kinds) == [i \in 1..Len(kinds) |-> T(kinds[i])]

\* character classes of the token texts, as the patterns of the source read them
HasComma(t) == t.k \in {",", "ARGS", "CSS_OPEN", "MAP_OPEN"}
HasGt(t) == t.k \in {"GT", "QGT", "HEAD", "CSS_OPEN", "CSS_CLOSE", "MAP_OPEN", "MAP_STYLE_END", "MAP_BODY", "MAP_CLOSE"}
StartsBrace(t) == t.k \in {"{", "ARGS"}
EndsBrace(t) == t.k \in {"}", "ARGS"}
IsSpace(t) == t.k = "WS"

---------------------------------------------------------------------------
(* Paths and the filesystem *)

CURRENT_DIR == "."
TIME_SERIES_DIR == "Time Series"
MAPS_DIR == "Maps"
HOOD_DIR == "Neighborhoods"
MODEL_DIR == "Modelling"
SUPPLY_DIR == "Supply"

Dirs == {CURRENT_DIR, TIME_SERIES_DIR, MAPS_DIR, HOOD_DIR, MODEL_DIR, SUPPLY_DIR}
Names == {"trend.html", "trend_animated.html"}

Join(dir, name) == [dir |-> dir, name |-> name]
Basename(p) == p.name
Paths == {Join(d, n) : d \in Dirs, n \in Names}
NotFound == [dir |-> "", name |-> ""]

\* os.path.exists
Exists(files, p) == p \in files

\* "animated" in file_path (no directory name of the app contains the word)
IsAnimated(p) == p.name = "trend_animated.html"

\* a loop without its break: the last candidate that exists
RECURSIVE LastExisting(_, _, _)
LastExisting(files, alt_paths, i) ==
    IF i > Len(alt_paths) THEN NotFound
    ELSE IF LastExisting(files, alt_paths, i + 1) # NotFound
         THEN LastExisting(files, alt_paths, i + 1)
    ELSE IF Exists(files, alt_paths[i]) THEN alt_paths[i]
    ELSE NotFound

\* the for loop over alt_paths: the first candidate that exists
RECURSIVE FirstExisting(_, _, _)
FirstExisting(files, alt_paths, i) ==
    IF i > Len(alt_paths) THEN NotFound
    ELSE IF Exists(files, alt_paths[i]) THEN alt_paths[i]
    ELSE FirstExisting(files, alt_paths, i + 1)

\* a candidate list that lacks its last directory
AltPathsFileShort(filename) ==
    << Join(CURRENT_DIR, filename), Join(TIME_SERIES_DIR, filename),
       Join(MAPS_DIR, filename), Join(HOOD_DIR, filename) >>

AltPathsFile(filename) ==
    << Join(CURRENT_DIR, filename), Join(TIME_SERIES_DIR, filename),
       Join(MAPS_DIR, filename), Join(HOOD_DIR, filename),
       Join(MODEL_DIR, filename) >>

AltPathsMap(filename) == << Join(MAPS_DIR, filename) >>

\* path verification without the return after the warning
ResolveFileNoReturn(files, file_path) ==
    IF Exists(files, file_path)
           \/ FirstExisting(files, AltPathsFile(Basename(file_path)), 1) = NotFound
    THEN file_path
    ELSE FirstExisting(files, AltPathsFile(Basename(file_path)), 1)

\* 1. Path Verification of display_html_file
ResolveFile(files, file_path) ==
    IF Exists(files, file_path) THEN file_path
    ELSE FirstExisting(files, AltPathsFile(Basename(file_path)), 1)

\* 1. Path Verification of display_html_map
ResolveMap(files, file_path) ==
    IF Exists(files, file_path) THEN file_path
    ELSE FirstExisting(files, AltPathsMap(Basename(file_path)), 1)

---------------------------------------------------------------------------
(* 3. Dimension stripping *)

\* last token of the text [^>]* can run over when it starts after position i
TagScopeEnd(s, i) ==
    IF \E j \in (i + 1)..Len(s) : HasGt(s[j])
    THEN (CHOOSE j \in (i + 1)..Len(s) :
              HasGt(s[j]) /\ \A m \in (i + 1)..(j - 1) : ~HasGt(s[m])) - 1
    ELSE Len(s)

\* the ends e of a match of  (<svg[^>]*)\s+attr="[^"]*"  that starts at i
SvgAttrEnds(s, i, attr) ==
    { e \in (i + 2)..TagScopeEnd(s, i) : s[e].k = attr /\ IsSpace(s[e - 1]) }

Max(S) == CHOOSE x \in S : \A y \in S : y <= x

\* re.sub(r'(<svg[^>]*)\s+attr="[^"]*"', r'\1', s): leftmost matches, each
\* the longest the greedy [^>]* allows, never overlapping, the text scanned once
RECURSIVE SubSvgAttr(_, _, _)
SubSvgAttr(s, i, attr) ==
    IF i > Len(s) THEN << >>
    ELSE IF s[i].k = "SVG" /\ SvgAttrEnds(s, i, attr) # {}
         THEN LET e == Max(SvgAttrEnds(s, i, attr))
              IN  SubSeq(s, i, e - 2) \o SubSvgAttr(s, e + 1, attr)
         ELSE << s[i] >> \o SubSvgAttr(s, i + 1, attr)

StripSvg(s) == SubSvgAttr(SubSvgAttr(s, 1, "HATTR"), 1, "WATTR")

\* first position after i + n tokens of the given class, scanning greedily
RECURSIVE SkipWhile(_, _, _)
SkipWhile(s, i, kind) ==
    IF i <= Len(s) /\ s[i].k = kind THEN SkipWhile(s, i + 1, kind) ELSE i

\* length of the match of  prop:\s*[0-9]+px;?  at i, or 0
DeclLen(s, i, prop) ==
    IF s[i].k # prop THEN 0
    ELSE LET d == SkipWhile(s, i + 1, "WS")
             p == SkipWhile(s, d, "NUM")
         IN  IF p > d /\ p <= Len(s) /\ s[p].k = "PX"
             THEN (IF p + 1 <= Len(s) /\ s[p + 1].k = ";" THEN p + 2 - i ELSE p + 1 - i)
             ELSE 0

\* re.sub(r'prop:\s*[0-9]+px;?', '', s)
RECURSIVE SubDecl(_, _, _)
SubDecl(s, i, prop) ==
    IF i > Len(s) THEN << >>
    ELSE IF DeclLen(s, i, prop) > 0
         THEN SubDecl(s, i + DeclLen(s, i, prop), prop)
         ELSE << s[i] >> \o SubDecl(s, i + 1, prop)

StripCss(s) == SubDecl(SubDecl(s, 1, "HC"), 1, "WC")

---------------------------------------------------------------------------
(* 4./5. Style block *)

\* max_width_css: "if width" is false for None and for 0
MaxWidthCss(width) ==
    IF width # 0
    THEN << T("MAX"), T("WC"), T("WS"), Num(width), T("PX"), T("IMP") >>
    ELSE << T("MAXW100") >>

MaxHeightCss(height) ==
    << T("MAX"), T("HC"), T("WS"), Num(height), T("PX"), T("IMPNL") >>

CssInjection(height, width) ==
    << T("CSS_OPEN") >> \o MaxHeightCss(height) \o MaxWidthCss(width)
        \o << T("CSS_CLOSE") >>

Contains(s, kind) == \E i \in 1..Len(s) : s[i].k = kind

\* html_content.replace("</head>", css + "</head>"): every occurrence
RECURSIVE ReplaceHead(_, _)
ReplaceHead(s, css) ==
    IF s = << >> THEN << >>
    ELSE IF Head(s).k = "HEAD"
         THEN css \o << Head(s) >> \o ReplaceHead(Tail(s), css)
         ELSE << Head(s) >> \o ReplaceHead(Tail(s), css)

InjectCss(html_content, css_injection) ==
    IF Contains(html_content, "HEAD")
    THEN ReplaceHead(html_content, css_injection)
    ELSE css_injection \o html_content

\* the f-string document shell of display_html_map
WrapFragment(html_fragment, height, width) ==
    << T("MAP_OPEN") >> \o MaxHeightCss(height) \o MaxWidthCss(width)
        \o << T("MAP_STYLE_END"), T("HEAD"), T("MAP_BODY") >>
        \o html_fragment \o << T("MAP_CLOSE") >>

---------------------------------------------------------------------------
(* 2. Animation Speed Logic *)

Min(S) == CHOOSE x \in S : \A y \in S : x <= y

\* re.search(r'Plotly\.newPlot\((.*)\);', html_content, re.DOTALL)
NewPlotMatch(s) ==
    \E i \in 1..Len(s) : \E j \in (i + 1)..Len(s) : s[i].k = "NP" /\ s[j].k = "END"

\* ,\s*{.*}\);  after the layout group that ends at e
ConfigTail(s, e) ==
    /\ e + 1 <= Len(s) /\ s[e + 1].k = ","
    /\ LET c == SkipWhile(s, e + 2, "WS")
       IN  /\ c <= Len(s) /\ StartsBrace(s[c])
           /\ \E q \in c..(Len(s) - 1) :
                  /\ EndsBrace(s[q]) /\ (q > c \/ s[c].k = "ARGS")
                  /\ s[q + 1].k = "END"

\* the ends of  ({.*"updatemenus":.*})  for a group that starts at g
LayoutEnds(s, g) ==
    { e \in (g + 2)..Len(s) :
          /\ EndsBrace(s[e])
          /\ \E u \in (g + 1)..(e - 1) : s[u].k = "UMK"
          /\ ConfigTail(s, e) }

\* start of the layout group when the lazy  \[.*?\]  ends at r, or 0
LayoutStart(s, r) ==
    IF r + 1 <= Len(s) /\ s[r].k = "]" /\ s[r + 1].k = ","
    THEN LET g == SkipWhile(s, r + 2, "WS")
         IN  IF g <= Len(s) /\ StartsBrace(s[g]) /\ LayoutEnds(s, g) # {}
             THEN g ELSE 0
    ELSE 0

\* the ends r of the data array  \[.*?\]  of a match that starts at the NP at i
DataEnds(s, i) ==
    IF \E m \in (i + 1)..Len(s) : HasComma(s[m])
    THEN LET m == Min({ x \in (i + 1)..Len(s) : HasComma(s[x]) })
             lb == SkipWhile(s, m + 1, "WS")
         IN  IF m > i + 1 /\ s[m].k = "," /\ lb <= Len(s) /\ s[lb].k = "["
             THEN { r \in (lb + 1)..Len(s) : LayoutStart(s, r) # 0 }
             ELSE {}
    ELSE {}

\* re.search(r'Plotly\.newPlot\([^,]+,\s*\[.*?\],\s*({.*"updatemenus":.*}),\s*{.*}\);', ..):
\* the leftmost match, the lazy data array as short and the greedy layout
\* group as long as a match allows; <<first, last>> of group(1), or <<0, 0>>
LayoutMatch(s) ==
    LET starts == { i \in 1..Len(s) : s[i].k = "NP" /\ DataEnds(s, i) # {} }
    IN  IF starts = {} THEN << 0, 0 >>
        ELSE LET g == LayoutStart(s, Min(DataEnds(s, Min(starts))))
             IN  << g, Max(LayoutEnds(s, g)) >>

\* text without the spaces json.loads skips between tokens
NoWs(s) == SelectSeq(s, LAMBDA t : t.k # "WS")

IsKey(t) == t.k \in {"UMK", "SLK", "BTK", "STK", "AGK", "KEY"}
IsAtom(t) == t.k \in {"NUL", "ID", "ARGS"}

\* json.loads as a recursive-descent parse: the last token of the value that
\* starts at i, or 0 when no value starts there
RECURSIVE ValEnd(_, _), MembersEnd(_, _), ElemsEnd(_, _)
ValEnd(j, i) ==
    IF i > Len(j) THEN 0
    ELSE IF IsAtom(j[i]) THEN i
    ELSE IF j[i].k = "NUM" THEN SkipWhile(j, i, "NUM") - 1
    ELSE IF j[i].k = "{"
         THEN (IF i + 1 <= Len(j) /\ j[i + 1].k = "}" THEN i + 1 ELSE MembersEnd(j, i + 1))
    ELSE IF j[i].k = "["
         THEN (IF i + 1 <= Len(j) /\ j[i + 1].k = "]" THEN i + 1 ELSE ElemsEnd(j, i + 1))
    ELSE 0

MembersEnd(j, i) ==
    IF i > Len(j) \/ ~IsKey(j[i]) THEN 0
    ELSE LET e == ValEnd(j, i + 1)
         IN  IF e = 0 \/ e + 1 > Len(j) THEN 0
             ELSE IF j[e + 1].k = "}" THEN e + 1
             ELSE IF j[e + 1].k = "," THEN MembersEnd(j, e + 2)
             ELSE 0

ElemsEnd(j, i) ==
    LET e == ValEnd(j, i)
    IN  IF e = 0 \/ e + 1 > Len(j) THEN 0
        ELSE IF j[e + 1].k = "]" THEN e + 1
        ELSE IF j[e + 1].k = "," THEN ElemsEnd(j, e + 2)
        ELSE 0

\* json.loads(layout_str) raises JSONDecodeError unless the whole text is one value
JsonValid(j) == j # << >> /\ ValEnd(j, 1) = Len(j)

\* obj[key] on the value that starts at i (0: the lookup raises); a key given
\* twice holds its last value
RECURSIVE MemberFrom(_, _, _, _)
MemberFrom(j, p, key, found) ==
    IF j[p].k = "}" THEN found
    ELSE LET e == ValEnd(j, p + 1)
             f == IF j[p].k = key THEN p + 1 ELSE found
         IN  IF j[e + 1].k = "," THEN MemberFrom(j, e + 2, key, f) ELSE f

MemberAt(j, i, key) ==
    IF i = 0 \/ j[i].k # "{" THEN 0 ELSE MemberFrom(j, i + 1, key, 0)

\* arr[n] on the value that starts at i (0: the lookup raises)
RECURSIVE ElemFrom(_, _, _)
ElemFrom(j, p, n) ==
    IF j[p].k = "]" THEN 0
    ELSE IF n = 0 THEN p
    ELSE LET e == ValEnd(j, p)
         IN  IF j[e + 1].k = "," THEN ElemFrom(j, e + 2, n - 1) ELSE 0

ElemAt(j, i, n) ==
    IF i = 0 \/ j[i].k # "[" THEN 0 ELSE ElemFrom(j, i + 1, n)

\* the starts of the elements of the array that starts at i
RECURSIVE ElemStartsFrom(_, _)
ElemStartsFrom(j, p) ==
    IF j[p].k = "]" THEN {}
    ELSE LET e == ValEnd(j, p)
         IN  {p} \cup (IF j[e + 1].k = "," THEN ElemStartsFrom(j, e + 2) ELSE {})

\* x['args'][1] when it is an object with a frame and a transition, else 0
ArgsOf(j, x) ==
    LET a == ElemAt(j, MemberAt(j, x, "AGK"), 1)
    IN  IF a # 0 /\ j[a].k = "ARGS" THEN a ELSE 0

\* layout_json['updatemenus'][0]['buttons'][0]
ButtonOf(j) == ElemAt(j, MemberAt(j, ElemAt(j, MemberAt(j, 1, "UMK"), 0), "BTK"), 0)

\* layout_json['sliders'][0]['steps']
StepsOf(j) == MemberAt(j, ElemAt(j, MemberAt(j, 1, "SLK"), 0), "STK")

\* the steps the for loop visits: the elements of a list; an empty dict has none
StepStarts(j) ==
    IF j[StepsOf(j)].k = "[" THEN ElemStartsFrom(j, StepsOf(j) + 1) ELSE {}

\* the for loop runs through: steps is a list or an empty dict
StepsIterable(j) ==
    /\ StepsOf(j) # 0
    /\ \/ j[StepsOf(j)].k = "["
       \/ j[StepsOf(j)].k = "{" /\ j[StepsOf(j) + 1].k = "}"

\* the duration assignments run through without KeyError, IndexError, TypeError
AssignmentsOk(j) ==
    /\ ArgsOf(j, ButtonOf(j)) # 0
    /\ MemberAt(j, 1, "SLK") # 0 =>
           /\ StepsIterable(j)
           /\ \A x \in StepStarts(j) : ArgsOf(j, x) # 0

\* the positions whose frame and transition durations are assigned
Assigned(j) ==
    {ArgsOf(j, ButtonOf(j))}
        \cup (IF MemberAt(j, 1, "SLK") # 0
              THEN { ArgsOf(j, x) : x \in StepStarts(j) } ELSE {})

\* json.dumps(layout_json): ", " and ": " separators, the assigned durations
RECURSIVE Dumps(_, _, _, _)
Dumps(j, i, assigned, animation_duration) ==
    IF i > Len(j) THEN << >>
    ELSE (IF j[i].k = "ARGS"
          THEN (IF i \in assigned
                THEN << Args(animation_duration, 0, 1) >>
                ELSE << Args(j[i].a, j[i].b, 1) >>)
          ELSE IF j[i].k = "," \/ IsKey(j[i]) THEN << j[i], T("WS") >>
          ELSE << j[i] >>)
         \o Dumps(j, i + 1, assigned, animation_duration)

IsAt(s, i, old) == i + Len(old) - 1 <= Len(s) /\ SubSeq(s, i, i + Len(old) - 1) = old

\* str.replace(old, new): every occurrence, left to right, none overlapping
RECURSIVE Replace(_, _, _, _)
Replace(s, i, old, new) ==
    IF i > Len(s) THEN << >>
    ELSE IF IsAt(s, i, old) THEN new \o Replace(s, i + Len(old), old, new)
    ELSE << s[i] >> \o Replace(s, i + 1, old, new)

\* except json.JSONDecodeError: pass
InnerCatches(exc) == exc = "JSONDecodeError"

\* the exception the body of the inner try raises on layout_str, or "none"
RewriteRaises(layout_str) ==
    IF ~JsonValid(NoWs(layout_str)) THEN "JSONDecodeError"
    ELSE IF ~AssignmentsOk(NoWs(layout_str)) THEN "LookupError"
    ELSE "none"

\* the block under  if "animated" in file_path:  -> the exception that leaves
\* it ("none": it completes) and html_content after it
AnimationSpeed(html_content, animation_duration) ==
    LET m == LayoutMatch(html_content)
        layout_str == SubSeq(html_content, m[1], m[2])
        j == NoWs(layout_str)
    IN  IF ~NewPlotMatch(html_content) \/ m[1] = 0
        THEN [exc |-> "none", html |-> html_content]
        ELSE IF RewriteRaises(layout_str) = "none"
        THEN [exc |-> "none",
              html |-> Replace(html_content, 1, layout_str,
                               Dumps(j, 1, Assigned(j), animation_duration))]
        ELSE IF InnerCatches(RewriteRaises(layout_str))
        THEN [exc |-> "none", html |-> html_content]
        ELSE [exc |-> RewriteRaises(layout_str), html |-> html_content]

---------------------------------------------------------------------------
(* The two display calls *)

\* every exception the body of the try can raise: open (OSError), read
\* (UnicodeDecodeError), json.loads (JSONDecodeError) and the subscripts of
\* the duration assignments (KeyError, IndexError, TypeError: LookupError)
Exceptions == {"OSError", "UnicodeDecodeError", "JSONDecodeError", "LookupError"}

\* what open() and read() do with the resolved file
IoOutcomes == {"ok", "OSError", "UnicodeDecodeError"}

\* a handler that catches the exceptions of open and read only
OuterCatchesIo(exc) == exc \in {"OSError", "UnicodeDecodeError"}

\* except Exception as e:
OuterCatches(exc) == exc \in Exceptions

DefaultHeight == 600
DefaultAnimationDuration == 50

NoCall ==
    [fn |-> "none", req |-> NotFound, used |-> NotFound, opened |-> FALSE,
     io |-> "", msg |-> "none", names |-> "", exc |-> "none", escaped |-> "none",
     rendered |-> FALSE, html_in |-> << >>, speeded |-> << >>,
     stripped |-> << >>, full_html |-> << >>,
     height |-> 0, width |-> 0, scrolling |-> FALSE, duration |-> 0]

\* the call as far as its arguments go
Called(fn, file_path, height, width, scrolling, animation_duration) ==
    [NoCall EXCEPT !.fn = fn, !.req = file_path, !.height = height,
                   !.width = width, !.scrolling = scrolling,
                   !.duration = animation_duration]

\* st.warning(..{filename}..); return
Warned(call, filename) == [call EXCEPT !.msg = "warning", !.names = filename]

\* an exception raised in the try: st.error(..{e}) when the handler catches
\* it, else it leaves the call
Raised(call, exc) ==
    IF OuterCatches(exc) THEN [call EXCEPT !.msg = "error", !.exc = exc]
    ELSE [call EXCEPT !.escaped = exc]

\* components.html(full_html, ..)
Rendered(call, speeded, stripped, full_html) ==
    [call EXCEPT !.rendered = TRUE, !.speeded = speeded,
                 !.stripped = stripped, !.full_html = full_html]

\* the try block of display_html_file from the read on
EmbedFile(call, file_path, html_content) ==
    LET sp == IF IsAnimated(file_path)
              THEN AnimationSpeed(html_content, call.duration)
              ELSE [exc |-> "none", html |-> html_content]
        stripped == StripSvg(sp.html)
    IN  IF sp.exc # "none" THEN Raised(call, sp.exc)
        ELSE Rendered(call, sp.html, stripped,
                      InjectCss(stripped, CssInjection(call.height, call.width)))

\* the try block of display_html_map from the read on
EmbedMap(call, html_fragment) ==
    LET stripped == StripSvg(StripCss(html_fragment))
    IN  Rendered(call, html_fragment, stripped,
                 WrapFragment(stripped, call.height, call.width))

\* display_html_file(file_path, height, width, scrolling, animation_duration)
\* on the files that exist, the content they hold and the outcome io of
\* opening and reading
FileResult(files, content, io, file_path, height, width, scrolling, animation_duration) ==
    LET call == Called("file", file_path, height, width, scrolling, animation_duration)
        used == ResolveFile(files, file_path)
        opening == [call EXCEPT !.used = used, !.opened = TRUE, !.io = io]
    IN  IF used = NotFound THEN Warned(call, Basename(file_path))
        ELSE IF io # "ok" THEN Raised(opening, io)
        ELSE EmbedFile([opening EXCEPT !.html_in = content], used, content)

\* display_html_map(file_path, height, width)
MapResult(files, content, io, file_path, height, width) ==
    LET call == Called("map", file_path, height, width, FALSE, 0)
        used == ResolveMap(files, file_path)
        opening == [call EXCEPT !.used = used, !.opened = TRUE, !.io = io]
    IN  IF used = NotFound THEN Warned(call, Basename(file_path))
        ELSE IF io # "ok" THEN Raised(opening, io)
        ELSE EmbedMap([opening EXCEPT !.html_in = content], content)

---------------------------------------------------------------------------
(* The page: display calls one after the other *)

\* the script runs on to its next call unless an exception left a call
Running == ~halted

DisplayHtmlFile(io, file_path, height, width, scrolling, animation_duration) ==
    /\ Running
    /\ last' = FileResult(fs, asset, io, file_path, height, width, scrolling,
                          animation_duration)
    /\ halted' = (last'.escaped # "none")
    /\ UNCHANGED << fs, asset >>

DisplayHtmlMap(io, file_path, height, width) ==
    /\ Running
    /\ last' = MapResult(fs, asset, io, file_path, height, width)
    /\ halted' = (last'.escaped # "none")
    /\ UNCHANGED << fs, asset >>

---------------------------------------------------------------------------
(* The assets the calls are run on *)

MaxSteps == 2
MaxAttrs == 3
MaxPieces == 4
MaxHeads == 2

\* all the sequences of at most n members of S, concatenated
RECURSIVE Concats(_, _)
Concats(S, n) ==
    IF n = 0 THEN { << >> }
    ELSE LET shorter == Concats(S, n - 1)
         IN  shorter \cup { x \o y : x \in shorter, y \in S }

\* {"frame":{"duration":500},"transition":{"duration":300}} as Plotly saves it
SavedArgs == << Args(500, 300, 0) >>
EmptyObject == Toks(<< "{", "}" >>)

\* "updatemenus":[{"buttons":[{"args":[null,<payload>]}]}]
UpdateMenus(payload) ==
    Toks(<< "UMK", "[", "{", "BTK", "[", "{", "AGK", "[", "NUL", "," >>)
        \o payload \o Toks(<< "]", "}", "]", "}", "]" >>)

\* {"args":[null,<payload>]}
Step(payload) ==
    Toks(<< "{", "AGK", "[", "NUL", "," >>) \o payload \o Toks(<< "]", "}" >>)

RECURSIVE Steps(_, _)
Steps(n, payload) ==
    IF n = 1 THEN Step(payload)
    ELSE Steps(n - 1, payload) \o Toks(<< "," >>) \o Step(payload)

\* ,"sliders":[{"steps":[<steps>]}]
Sliders(steps) ==
    Toks(<< ",", "SLK", "[", "{", "STK", "[" >>) \o steps \o Toks(<< "]", "}", "]" >>)

UpdateMenusTexts ==
    { UpdateMenus(SavedArgs),          \* the play button as Plotly saves it
      UpdateMenus(EmptyObject),        \* args[1] without frame and transition
      Toks(<< "UMK", "[", "]" >>),     \* no menu
      Toks(<< "UMK" >>) }              \* not JSON

SlidersTexts ==
    { << >> }                                          \* no sliders
        \cup { Sliders(Steps(n, SavedArgs)) : n \in 1..MaxSteps }
        \cup { Sliders(Step(EmptyObject)),             \* a step without durations
               Toks(<< ",", "SLK", "NUL" >>) }         \* "sliders":null

LayoutTexts ==
    { Toks(<< "{" >>) \o um \o sl \o Toks(<< "}" >>) :
          um \in UpdateMenusTexts, sl \in SlidersTexts }
        \cup { Toks(<< "{", "KEY", "NUL", "}" >>) }    \* a layout without controls

DataTexts == { Toks(<< "[", "]" >>), Toks(<< "[", "{", "KEY", "NUL", "}", "]" >>) }

ConfigTexts ==
    { EmptyObject,                                                     \* {}
      Toks(<< "{", "KEY", "[", "{", "}", ",", "WS", "{", "}", "]", "}" >>) }  \* {"a":[{}, {}]}

CallEnds == { Toks(<< "END" >>), << >> }

\* Plotly.newPlot("g", <data>, <layout>, <config>);  inside a document
AnimatedDocs ==
    { pre \o Toks(<< "NP", "ID", ",", "WS" >>) \o data \o Toks(<< ",", "WS" >>)
          \o layout \o Toks(<< ",", "WS" >>) \o config \o end :
          pre \in { << >>, Toks(<< "HEAD" >>) }, data \in DataTexts,
          layout \in LayoutTexts, config \in ConfigTexts, end \in CallEnds }

\* layouts that hold the animation controls as Plotly saves them
ControlLayouts ==
    { Toks(<< "{" >>) \o UpdateMenus(SavedArgs) \o sl \o Toks(<< "}" >>) :
          sl \in { << >> } \cup { Sliders(Steps(n, SavedArgs)) : n \in 1..MaxSteps } }

\* text around the chart call: none, or a layout kept elsewhere in the page,
\* x<layout>x
AroundTexts ==
    { << >> } \cup { Toks(<< "TXT" >>) \o l \o Toks(<< "TXT" >>) : l \in ControlLayouts }

\* <before>Plotly.newPlot("g", [], <layout>, {});<after>
RepeatDocs ==
    { before \o Toks(<< "NP", "ID", ",", "WS", "[", "]", ",", "WS" >>) \o layout
          \o Toks(<< ",", "WS", "{", "}", "END" >>) \o after :
          before \in AroundTexts, layout \in ControlLayouts, after \in AroundTexts }

\* <svg ..attributes..>
SvgAttrs ==
    { Toks(<< "WS", "HATTR" >>), Toks(<< "WS", "WATTR" >>),
      Toks(<< "WS", "ATTR" >>), Toks(<< "WS", "QGT" >>) }

SvgDocs ==
    { Toks(<< "SVG" >>) \o attrs \o Toks(<< "GT" >>) : attrs \in Concats(SvgAttrs, MaxAttrs) }

\* text around inline declarations  height:450px;  and  width: 300px
DeclPieces ==
    { Toks(<< "HC" >>), << Num(4) >>, Toks(<< "PX" >>), Toks(<< "TXT" >>),
      << T("HC"), Num(450), T("PX"), T(";") >>,
      << T("WC"), T("WS"), Num(300), T("PX") >> }

DeclDocs == Concats(DeclPieces, MaxPieces)

\* documents with closing head markers
HeadDocs == Concats({ Toks(<< "HEAD" >>), Toks(<< "TXT" >>) }, MaxHeads + 1)

EmbedAssets == AnimatedDocs \cup RepeatDocs \cup SvgDocs \cup DeclDocs \cup HeadDocs

\* what the files of the page hold
PageAssets ==
    { Toks(<< "NP", "ID", ",", "WS", "[", "]", ",", "WS", "{" >>)
          \o UpdateMenus(SavedArgs) \o Sliders(Steps(2, SavedArgs))
          \o Toks(<< "}", ",", "WS", "{", "}", "END", "SVG", "WS", "HATTR", "GT" >>),
      Toks(<< "HEAD", "NP", "ID", ",", "WS", "[", "]", ",", "WS", "{", "UMK", "[", "]",
              "}", ",", "WS", "{", "}", "END", "HC", "WS" >>)
          \o << Num(450), T("PX"), T(";") >> }

Widths == {0, 300}

---------------------------------------------------------------------------
(* The page: any number of calls, each with any path and any outcome of the  *)
(* read.  Which path a call uses depends only on the files that carry the    *)
(* requested name, so the files that exist are any set of files of one name. *)

Init ==
    /\ fs \in UNION { SUBSET { Join(d, n) : d \in Dirs } : n \in Names }
    /\ asset \in PageAssets
    /\ halted = FALSE
    /\ last = NoCall

Next ==
    \E io \in IoOutcomes, file_path \in Paths :
        \/ DisplayHtmlFile(io, file_path, DefaultHeight, 0, TRUE, DefaultAnimationDuration)
        \/ DisplayHtmlMap(io, file_path, DefaultHeight, 0)

Spec == Init /\ [][Next]_vars

(* One call on a file that is there and readable, on every asset *)

EmbedPaths == { Join(TIME_SERIES_DIR, n) : n \in Names }

InitEmbed ==
    /\ fs = EmbedPaths
    /\ asset \in EmbedAssets
    /\ halted = FALSE
    /\ last = NoCall

FirstCall == last = NoCall

NextEmbed ==
    \E file_path \in EmbedPaths, width \in Widths :
        \/ FirstCall /\ DisplayHtmlFile("ok", file_path, DefaultHeight, width, TRUE,
                                         DefaultAnimationDuration)
        \/ FirstCall /\ DisplayHtmlMap("ok", file_path, DefaultHeight, width)

SpecEmbed == InitEmbed /\ [][NextEmbed]_vars

---------------------------------------------------------------------------
(* Properties of the page (Spec) *)

\* the directories display_html_file and display_html_map fall back to
FileFallbacks == << CURRENT_DIR, TIME_SERIES_DIR, MAPS_DIR, HOOD_DIR, MODEL_DIR >>
MapFallbacks == << MAPS_DIR >>
FallbacksOf(call) == IF call.fn = "file" THEN FileFallbacks ELSE MapFallbacks

\* the requested name is in the i-th fallback directory of the call
InFallback(call, i) == Join(FallbacksOf(call)[i], call.req.name) \in fs

\* the asset of the call is nowhere: not at the requested path, in no fallback
Missing(call) ==
    /\ call.req \notin fs
    /\ \A i \in 1..Len(FallbacksOf(call)) : ~InFallback(call, i)

\* the animation rewrite of the call raises out of its own try
TransformFails(call) ==
    /\ call.fn = "file" /\ call.io = "ok" /\ IsAnimated(call.used)
    /\ LET m == LayoutMatch(call.html_in)
       IN  /\ NewPlotMatch(call.html_in) /\ m[1] # 0
           /\ JsonValid(NoWs(SubSeq(call.html_in, m[1], m[2])))
           /\ ~AssignmentsOk(NoWs(SubSeq(call.html_in, m[1], m[2])))

\* the call hit a missing asset, a failing read, or a failure in the transform
Failing(call) ==
    call.fn # "none"
        /\ (Missing(call) \/ call.io \in {"OSError", "UnicodeDecodeError"}
              \/ TransformFails(call))

\* C1: no display call lets an exception escape; a call that hits a missing
\* asset, a read or decoding failure, or a failure of the transform ends in
\* a warning or an error message and renders nothing, and the page goes on
\* to its next call.
C1_NothingEscapes ==
    /\ ~halted
    /\ last.escaped = "none"
    /\ Running
    /\ Failing(last) => last.msg \in {"warning", "error"} /\ ~last.rendered
    /\ (last.fn # "none" /\ ~Failing(last)) => last.msg = "none" /\ last.rendered

\* a call whose animation rewrite raised ended in an error message
C1_Witness ==
    TransformFails(last) /\ last.msg = "error" /\ last.exc = "LookupError" /\ Running

\* C2: when the requested path does not exist and the bare filename is in no
\* fallback directory, the call ends with the not-found warning, which names
\* the bare filename only, before any open or read: no read error, no
\* exception, nothing rendered.
C2_NotFoundWarns ==
    (last.fn # "none" /\ Missing(last)) =>
        /\ last.msg = "warning"
        /\ last.names = last.req.name
        /\ ~last.opened /\ last.io = "" /\ last.html_in = << >>
        /\ last.exc = "none" /\ last.escaped = "none"
        /\ ~last.rendered /\ last.full_html = << >>

\* a file of the requested name exists, but in no directory the call looks in
C2_Witness ==
    /\ last.fn = "file" /\ Missing(last) /\ last.msg = "warning"
    /\ \E p \in fs : p.name = last.req.name

\* C3: path resolution never throws and yields a path that exists or
\* NotFound: an existing path whenever the requested path exists or the bare
\* filename is in a candidate directory, NotFound exactly when it is in none.
C3_ResolvesToExisting ==
    last.fn # "none" =>
        /\ last.escaped = "none"
        /\ last.used = NotFound \/ last.used \in fs
        /\ last.used = NotFound <=> Missing(last)
        /\ last.used # NotFound => last.used.name = last.req.name

\* the requested path is absent and a fallback directory supplied the file
C3_Witness ==
    last.fn # "none" /\ last.req \notin fs /\ last.used \in fs

\* C4: the requested path is used when it exists, also when the same name is
\* in fallback directories; otherwise the path used is the one in the
\* earliest fallback directory, in listed order, that holds the name.
C4_Priority ==
    last.fn = "file" =>
        /\ last.req \in fs => last.used = last.req
        /\ last.req \notin fs =>
               \A i \in 1..Len(FileFallbacks) :
                   (InFallback(last, i) /\ \A m \in 1..(i - 1) : ~InFallback(last, m))
                       => last.used = Join(FileFallbacks[i], last.req.name)

\* the name is in two fallback directories and not at the requested path
C4_Witness ==
    /\ last.fn = "file" /\ last.req \notin fs
    /\ \E i, m \in 1..Len(FileFallbacks) : i < m /\ InFallback(last, i) /\ InFallback(last, m)
    /\ last.used \in fs

\* the requested path exists and so does a fallback of the same name
C4_WitnessPrimary ==
    /\ last.fn = "file" /\ last.req \in fs /\ last.used = last.req
    /\ \E i \in 1..Len(FileFallbacks) :
           InFallback(last, i) /\ Join(FileFallbacks[i], last.req.name) # last.req


---------------------------------------------------------------------------
(* Properties of one call, on every asset (SpecEmbed) *)

\* the layout argument of the chart call  Plotly.newPlot("g", data, layout,
\* config);  read argument by argument with the JSON parser: <<first, last>>
\* of the layout in the text j without spaces, or <<0, 0>>
CallLayout(j) ==
    IF ~Contains(j, "NP") THEN << 0, 0 >>
    ELSE LET n == Min({ i \in 1..Len(j) : j[i].k = "NP" })
             de == ValEnd(j, n + 3)
             le == IF de = 0 THEN 0 ELSE ValEnd(j, de + 2)
             ce == IF le = 0 THEN 0 ELSE ValEnd(j, le + 2)
         IN  IF /\ n + 2 <= Len(j) /\ j[n + 1].k = "ID" /\ j[n + 2].k = ","
                /\ de # 0 /\ le # 0 /\ ce # 0 /\ ce + 1 <= Len(j)
                /\ j[de + 1].k = "," /\ j[le + 1].k = "," /\ j[ce + 1].k = "END"
                /\ j[de + 2].k = "{"
             THEN << de + 2, le >> ELSE << 0, 0 >>

LayoutOf(doc) ==
    SubSeq(NoWs(doc), CallLayout(NoWs(doc))[1], CallLayout(NoWs(doc))[2])

\* the document holds the animation controls: a play button with frame and
\* transition durations and a slider whose steps all carry them
HasControls(doc) ==
    /\ CallLayout(NoWs(doc))[1] # 0
    /\ AssignmentsOk(LayoutOf(doc))
    /\ MemberAt(LayoutOf(doc), 1, "SLK") # 0
    /\ StepStarts(LayoutOf(doc)) # {}

\* frame.duration = d and transition.duration = 0 in the play button's args
\* and in the args of every slider step of the document
DurationsSet(doc, d) ==
    /\ HasControls(doc)
    /\ \A x \in Assigned(LayoutOf(doc)) :
           LayoutOf(doc)[x].a = d /\ LayoutOf(doc)[x].b = 0

AnimatedCall(call) == call.fn = "file" /\ call.io = "ok" /\ IsAnimated(call.used)

\* C5: for an animated standalone document that holds the animation controls
\* and any configured frame duration d, the rendered output has
\* frame.duration = d and transition.duration = 0 in the play button's args
\* and in every slider step's args.
C5_DurationsRewritten ==
    (AnimatedCall(last) /\ HasControls(last.html_in)) =>
        last.rendered /\ DurationsSet(last.full_html, last.duration)

\* the layout text the rewrite works on
MatchedLayout(doc) == SubSeq(doc, LayoutMatch(doc)[1], LayoutMatch(doc)[2])

\* the animation controls the rewrite expects are absent from the document
ControlsAbsent(doc) ==
    \/ ~NewPlotMatch(doc)                                    \* no chart call
    \/ LayoutMatch(doc)[1] = 0                               \* the pattern does not match
    \/ ~JsonValid(NoWs(MatchedLayout(doc)))                  \* the match does not parse
    \/ MemberAt(NoWs(MatchedLayout(doc)), 1, "SLK") = 0      \* no sliders at all
    \/ ~AssignmentsOk(NoWs(MatchedLayout(doc)))              \* fields are missing

\* C6: for an animated input without the expected animation controls the
\* rewrite is a silent no-op: no exception, no error message, and the chart
\* is rendered from the original document changed only by the stripping of
\* dimensions and the injection of the style block.
C6_SilentNoOp ==
    (AnimatedCall(last) /\ ControlsAbsent(last.html_in)) =>
        /\ last.escaped = "none" /\ last.exc = "none" /\ last.msg = "none"
        /\ last.rendered
        /\ last.full_html = InjectCss(StripSvg(last.html_in),
                                      CssInjection(last.height, last.width))

\* the transition durations of a text, in order
Transitions(doc) == SelectSeq(doc, LAMBDA t : t.k = "ARGS")

\* html_content of a second display_html_file call on the output of the
\* first, before its stripping step
SecondPass(call) ==
    IF IsAnimated(call.used) THEN AnimationSpeed(call.full_html, call.duration)
    ELSE [exc |-> "none", html |-> call.full_html]

\* C7: run again on its own output, the embed transform leaves every
\* transition duration that is 0 at 0, and its stripping step removes
\* nothing: no height or width attribute and no height or width declaration.
C7_SecondPassNoOp ==
    last.rendered =>
        IF last.fn = "file"
        THEN /\ SecondPass(last).exc = "none"
             /\ Len(Transitions(SecondPass(last).html)) = Len(Transitions(last.full_html))
             /\ \A i \in 1..Len(Transitions(last.full_html)) :
                    Transitions(last.full_html)[i].b = 0
                        => Transitions(SecondPass(last).html)[i].b = 0
             /\ StripSvg(SecondPass(last).html) = SecondPass(last).html
        ELSE /\ StripCss(last.full_html) = last.full_html
             /\ StripSvg(StripCss(last.full_html)) = StripCss(last.full_html)

\* a declaration  prop:<digits>px  (spaces allowed after the colon) starts at i
DeclAt(s, i, prop) ==
    /\ s[i].k = prop
    /\ \E p \in (i + 2)..Len(s) :
           /\ s[p].k = "PX" /\ s[p - 1].k = "NUM"
           /\ \A m \in (i + 1)..(p - 1) : s[m].k \in {"WS", "NUM"}
           /\ \A m \in (i + 1)..(p - 2) : s[m].k = "NUM" => s[m + 1].k = "NUM"

\* C8: for every fragment, the fragment text placed in the body of the output
\* document holds no declaration height:<digits>px or width:<digits>px.
C8_NoDeclLeft ==
    (last.fn = "map" /\ last.rendered) =>
        \A i \in 1..Len(last.stripped) :
            ~DeclAt(last.stripped, i, "HC") /\ ~DeclAt(last.stripped, i, "WC")

\* the > that closes the tag opened by the <svg at i, or the end of the text
TagClose(s, i) ==
    IF \E m \in (i + 1)..Len(s) : s[m].k = "GT"
    THEN Min({ m \in (i + 1)..Len(s) : s[m].k = "GT" }) ELSE Len(s)

\* C9: after the stripping step of either variant no svg opening tag keeps a
\* height="<digits>" or width="<digits>" attribute, whatever their number or
\* position within the tag.
C9_NoSvgDimension ==
    last.rendered =>
        \A i \in 1..Len(last.stripped) :
            last.stripped[i].k = "SVG" =>
                \A m \in (i + 2)..TagClose(last.stripped, i) :
                    ~(last.stripped[m].k \in {"HATTR", "WATTR"}
                          /\ IsSpace(last.stripped[m - 1]))

Count(s, kind) == Len(SelectSeq(s, LAMBDA t : t.k = kind))

\* C10: display_html_file inserts the style block exactly once: immediately
\* before the closing head marker when the document has one, else at the very
\* start; the rest of the document is unchanged.
C10_StyleOnce ==
    (last.fn = "file" /\ last.rendered) =>
        LET css == CssInjection(last.height, last.width)
        IN  /\ Count(last.full_html, "CSS_OPEN") = Count(last.stripped, "CSS_OPEN") + 1
            /\ Len(last.full_html) = Len(last.stripped) + Len(css)
            /\ IF Contains(last.stripped, "HEAD")
               THEN \E i \in 1..Len(last.stripped) :
                        /\ last.stripped[i].k = "HEAD"
                        /\ last.full_html = SubSeq(last.stripped, 1, i - 1) \o css
                               \o SubSeq(last.stripped, i, Len(last.stripped))
               ELSE last.full_html = css \o last.stripped

\* the rewrite is applied to the document: the pattern matches, the match
\* parses and the duration assignments run through
RewriteApplied(doc) ==
    /\ NewPlotMatch(doc)
    /\ LayoutMatch(doc)[1] # 0
    /\ RewriteRaises(MatchedLayout(doc)) = "none"

\* the document with the text at first..stop replaced by new
Spliced(doc, first, stop, new) ==
    SubSeq(doc, 1, first - 1) \o new \o SubSeq(doc, stop + 1, Len(doc))

\* C11: when the animation rewrite is applied, the re-serialised layout
\* replaces the original layout at its one original location only, and the
\* text before and after that location is left as it was.
C11_OneLocation ==
    (AnimatedCall(last) /\ RewriteApplied(last.html_in)) =>
        /\ last.rendered
        /\ last.speeded =
               Spliced(last.html_in, LayoutMatch(last.html_in)[1],
                       LayoutMatch(last.html_in)[2],
                       Dumps(NoWs(MatchedLayout(last.html_in)), 1,
                             Assigned(NoWs(MatchedLayout(last.html_in))),
                             last.duration))

===========================================================================
